---- MODULE Spec2Model ----
(***************************************************************************)
(* Model of quill_delta_pdf: DeltaPdf (src/src/lib.rs) over the Delta data *)
(* model (src/src/delta.rs).                                               *)
(*                                                                         *)
(* A Rust String is modelled as a sequence of tokens; a token is one       *)
(* character ("\n", ".", " ", a digit) or an atomic piece of text without  *)
(* any of those characters ("Title").  Option<T> is modelled as a sequence *)
(* of length at most one: None == <<>>, Some(x) == <<x>>.                  *)
(***************************************************************************)
EXTENDS Integers, Sequences, FiniteSets, TLC

\* ------------------------------------------------------------------ bounds
\* Longest operation list of the generated documents.
MaxOps == 3
\* Longest operation list of the generated list documents.
MaxListOps == 5
\* Number of write_to_pdf calls made on one DeltaPdf.
MaxCalls == 2

\* ------------------------------------------------------------ Option, text
None == <<>>
Some(x) == <<x>>

NL == "\n"

RECURSIVE Split(_, _)
\* str::split(sep): the pieces between the separators; always at least one piece.
Split(s, sep) ==
    IF \A k \in 1..Len(s) : s[k] # sep THEN <<s>>
    ELSE LET k == CHOOSE k \in 1..Len(s) :
                      s[k] = sep /\ \A j \in 1..(k - 1) : s[j] # sep
         IN  <<SubSeq(s, 1, k - 1)>> \o Split(SubSeq(s, k + 1, Len(s)), sep)

\* str::contains('\n')
ContainsNL(s) == \E k \in 1..Len(s) : s[k] = NL

\* str::rfind('\n').map_or(0, |x| x + 1): the 0-based index just after the
\* last line break, 0 when there is none.
FirstCharIndex(s) ==
    IF ContainsNL(s)
    THEN CHOOSE k \in 1..Len(s) : s[k] = NL /\ \A j \in (k + 1)..Len(s) : s[j] # NL
    ELSE 0

\* String::insert_str(idx, t), idx a 0-based index.
InsertStr(s, idx, t) == SubSeq(s, 1, idx) \o t \o SubSeq(s, idx + 1, Len(s))

DigitChars == <<"0", "1", "2", "3", "4", "5", "6", "7", "8", "9">>

RECURSIVE Decimal(_)
\* Display of an unsigned integer.
Decimal(n) ==
    IF n < 10 THEN <<DigitChars[n + 1]>>
    ELSE Decimal(n \div 10) \o <<DigitChars[(n % 10) + 1]>>

\* format!("{}. ", n)
OrderedPrefix(n) == Decimal(n) \o <<".", " ">>

\* The bullet character U+2022, one token.
Bullet == "U+2022"

\* The literal prefix of the bullet branch: the bullet and a space.
BulletPrefix == <<Bullet, " ">>

\* --------------------------------------------------- data model (delta.rs)
\* Schemes for which the URL parser gives an empty path the value "/".
SpecialSchemes == {"http", "https", "ws", "wss", "ftp", "file"}

\* Url as deserialized into Image.image: written is [scheme, path], the path
\* being what follows the host (or the scheme, when there is no host).  The
\* parser normalises the empty path of a special-scheme URL to "/".
ParseUrl(written) ==
    IF written.scheme \in SpecialSchemes /\ written.path = <<>>
    THEN [written EXCEPT !.path = <<"/">>]
    ELSE written

\* Url::path_segments(): None for a cannot-be-a-base URL (its path does not
\* start with "/"), otherwise the path after the leading "/" split on "/";
\* the split of an empty remainder is the single empty segment.
PathSegments(url) ==
    IF url.path # <<>> /\ Head(url.path) = "/"
    THEN Some(Split(Tail(url.path), "/"))
    ELSE None

\* DeltaType::String(text)
StringContent(text) == [type |-> "String", s |-> text]

\* DeltaType::Image(Image { image: url })
ImageContent(written) == [type |-> "Image", image |-> ParseUrl(written)]

\* Attribute::Bold(b), Italic(b), Header(n), List(l)
Bold(b) == [tag |-> "Bold", val |-> b]
Italic(b) == [tag |-> "Italic", val |-> b]
Header(n) == [tag |-> "Header", val |-> n]
List(l) == [tag |-> "List", val |-> l]

\* Op { change, attributes }: change is the variant with its content.
Op(change, content, attributes) ==
    [change |-> change, content |-> content, attributes |-> attributes]

\* ------------------------------------------------------- generated inputs
\* "https://example.com/a/b/pic.png"
UrlPic == [scheme |-> "https", path |-> <<"/", "a", "/", "b", "/", "pic.png">>]
\* "https://example.com"
UrlNoPath == [scheme |-> "https", path |-> <<>>]
\* "data:pic.png", a URL that cannot be a base
UrlData == [scheme |-> "data", path |-> <<"pic.png">>]

\* "./images"
ImagesDir == <<".", "/", "images">>

\* The operations the generated documents are made of.
Alphabet ==
    { Op("Insert", StringContent(<<"a">>), None),
      Op("Insert", StringContent(<<NL>>), None),
      Op("Insert", StringContent(<<"a", NL, "b">>), None),
      Op("Insert", StringContent(<<NL>>), Some(<<Header(1)>>)),
      Op("Insert", StringContent(<<NL>>), Some(<<List("Ordered")>>)),
      Op("Insert", StringContent(<<"b">>), Some(<<Bold(TRUE), List("Bullet")>>)),
      Op("Insert", ImageContent(UrlPic), None),
      Op("Insert", ImageContent(UrlNoPath), None),
      Op("Insert", ImageContent(UrlData), None),
      Op("Retain", StringContent(<<"c">>), Some(<<Header(1), List("Ordered")>>)),
      Op("Delete", ImageContent(UrlPic), Some(<<List("Ordered")>>)) }

\* The operations of the heading documents: lines, and line breaks that carry
\* each header level.
HeadingAlphabet ==
    { Op("Insert", StringContent(<<"a">>), None),
      Op("Insert", StringContent(<<"a", NL, "b">>), Some(<<Italic(TRUE)>>)),
      Op("Insert", StringContent(<<NL>>), Some(<<Header(1)>>)),
      Op("Insert", StringContent(<<NL>>), Some(<<Header(2)>>)),
      Op("Insert", StringContent(<<NL>>), Some(<<Header(3)>>)),
      Op("Insert", StringContent(<<"b">>),
         Some(<<Bold(FALSE), Italic(FALSE), Header(0)>>)) }

\* The operations of the list documents: a line, its ordered-list marker, a
\* plain line break.
ListAlphabet ==
    { Op("Insert", StringContent(<<"a">>), None),
      Op("Insert", StringContent(<<NL>>), Some(<<List("Ordered")>>)),
      Op("Insert", StringContent(<<NL>>), None) }

SeqsUpTo(S, n) == UNION { [1..k -> S] : k \in 0..n }

\* Title / header 1 / Item A / ordered / Item B / ordered
ScenarioDoc ==
    << Op("Insert", StringContent(<<"Title">>), None),
       Op("Insert", StringContent(<<NL>>), Some(<<Header(1)>>)),
       Op("Insert", StringContent(<<"Item A">>), None),
       Op("Insert", StringContent(<<NL>>), Some(<<List("Ordered")>>)),
       Op("Insert", StringContent(<<"Item B">>), None),
       Op("Insert", StringContent(<<NL>>), Some(<<List("Ordered")>>)) >>

\* The documents DeltaPdf::new can return.
Docs ==
    SeqsUpTo(Alphabet, MaxOps) \cup SeqsUpTo(HeadingAlphabet, MaxOps)
        \cup SeqsUpTo(ListAlphabet, MaxListOps) \cup {ScenarioDoc}

\* ------------------------------------------------------- DeltaPdf (lib.rs)
\* Width of previous_lists (u32), kept as a vector of bits, bit 0 first.
U32Bits == 32

\* previous_lists: u32 = 0
ZeroBits == [k \in 1..U32Bits |-> 0]

\* previous_lists >> n & 1
Bit(bits, n) == bits[n + 1]

\* previous_lists << 1 | b, in 32 bits: the top bit is shifted out.
ShlOr(bits, b) == <<b>> \o SubSeq(bits, 1, U32Bits - 1)

\* Style::new(): nothing set.
NewStyle == [bold |-> FALSE, italic |-> FALSE, font_size |-> None]

\* PdfElement::String(StyledString::new(text, style)); op is the index of the
\* operation the element was built from (history, not program state).
StringElement(text, style, op) ==
    [type |-> "String", s |-> text, style |-> style, op |-> op]

\* PdfElement::Image(image): the image loaded from full_path.
ImageElement(full_path, op) == [type |-> "Image", path |-> full_path, op |-> op]

\* strings.last_mut() is Some(PdfElement::String(_))
LastIsString(strings) ==
    strings # <<>> /\ strings[Len(strings)].type = "String"

\* set_heading on the last string element, looking past images.
set_heading_last_string(strings, font_size) ==
    LET found == { k \in 1..Len(strings) : strings[k].type = "String" }
    IN  IF found = {} THEN strings
        ELSE LET k == CHOOSE k \in found : \A j \in found : j <= k
             IN  [strings EXCEPT ![k].style.font_size = Some(font_size)]

\* set_heading on a copy of the last element: the sequence stays as it was.
set_heading_copy(strings, font_size) == strings

\* DeltaPdf::set_heading(strings, font_size)
set_heading(strings, font_size) ==
    IF LastIsString(strings)
    THEN [strings EXCEPT ![Len(strings)].style.font_size = Some(font_size)]
    ELSE strings

\* set_prefix inserting at index 0 whatever the content.
set_prefix_start(strings, prefix) ==
    IF LastIsString(strings)
    THEN [strings EXCEPT ![Len(strings)].s = prefix \o @]
    ELSE strings

\* DeltaPdf::set_prefix(strings, prefix)
set_prefix(strings, prefix) ==
    IF LastIsString(strings)
    THEN LET last == strings[Len(strings)]
             first_char_index == FirstCharIndex(last.s)
         IN  [strings EXCEPT ![Len(strings)].s =
                                 InsertStr(last.s, first_char_index, prefix)]
    ELSE strings

\* The reset test reading the previous operation's bit instead of the one
\* before it.
ResetConditionPrevious(strings, previous_lists) ==
    Bit(previous_lists, 0) = 0 \/ ContainsNL(strings[Len(strings)].s)

\* The reset test of the ordered branch: the operation two before this one was
\* no ordered list item, or the last element contains a line break.
ResetCondition(strings, previous_lists) ==
    Bit(previous_lists, 1) = 0 \/ ContainsNL(strings[Len(strings)].s)

\* The reset test on the text of the second-to-last element: reset unless it
\* contains the prefix of the ordinal before the counter, floored at 1.
OrderedIndexTextPolicy(st, previous_lists) ==
    LET els == st.pdf_elements
        n == st.ordered_list_index
        marker == OrderedPrefix(IF n - 1 < 1 THEN 1 ELSE n - 1)
        found ==
            /\ Len(els) >= 2
            /\ els[Len(els) - 1].type = "String"
            /\ \E c \in 0..(Len(els[Len(els) - 1].s) - Len(marker)) :
                  SubSeq(els[Len(els) - 1].s, c + 1, c + Len(marker)) = marker
    IN  IF LastIsString(els) /\ ~found THEN 1 ELSE n

\* The ordered_list_index the prefix is formatted from.
OrderedIndex(st, previous_lists) ==
    IF LastIsString(st.pdf_elements)
       /\ ResetCondition(st.pdf_elements, previous_lists)
    THEN 1
    ELSE st.ordered_list_index

\* The ordered arm without `ordered_list_index += 1`.
OrderedArmNoIncrement(st, previous_lists, op) ==
    LET n == IF LastIsString(st.pdf_elements)
                /\ (Bit(previous_lists, 1) = 0
                    \/ ContainsNL(st.pdf_elements[Len(st.pdf_elements)].s))
             THEN 1
             ELSE st.ordered_list_index
    IN  [st EXCEPT
            !.pdf_elements = set_prefix(@, OrderedPrefix(n)),
            !.ordered_list_index = n,
            !.ordered_list_item = TRUE,
            !.numbering = Append(@, [op |-> op, n |-> n,
                                     written |-> LastIsString(st.pdf_elements)])]

\* The ordered arm with the increment inside the `if let`: an attribute that
\* finds no string to prefix leaves the counter as it was.
OrderedArmNoOpKeeps(st, previous_lists, op) ==
    LET n == IF LastIsString(st.pdf_elements)
                /\ (Bit(previous_lists, 1) = 0
                    \/ ContainsNL(st.pdf_elements[Len(st.pdf_elements)].s))
             THEN 1
             ELSE st.ordered_list_index
    IN  [st EXCEPT
            !.pdf_elements = set_prefix(@, OrderedPrefix(n)),
            !.ordered_list_index =
                IF LastIsString(st.pdf_elements) THEN n + 1 ELSE n,
            !.ordered_list_item = TRUE,
            !.numbering = Append(@, [op |-> op, n |-> n,
                                     written |-> LastIsString(st.pdf_elements)])]

\* The ListType::Ordered arm.  numbering records, per ordered attribute, the
\* operation, the ordinal formatted and whether set_prefix found a string.
OrderedArm(st, previous_lists, op) ==
    LET n == OrderedIndex(st, previous_lists)
    IN  [st EXCEPT
            !.pdf_elements = set_prefix(@, OrderedPrefix(n)),
            !.ordered_list_index = n + 1,
            !.ordered_list_item = TRUE,
            !.numbering = Append(@, [op |-> op, n |-> n,
                                     written |-> LastIsString(st.pdf_elements)])]

\* The match with a bullet arm that also starts the ordered numbering over.
MatchAttributeBulletResets(attribute, st, previous_lists, op) ==
    CASE attribute.tag = "Bold" /\ attribute.val = TRUE ->
            [st EXCEPT !.style.bold = TRUE]
      [] attribute.tag = "Italic" /\ attribute.val = TRUE ->
            [st EXCEPT !.style.italic = TRUE]
      [] attribute.tag = "Header" /\ attribute.val = 1 ->
            [st EXCEPT !.pdf_elements = set_heading(@, 18)]
      [] attribute.tag = "Header" /\ attribute.val = 2 ->
            [st EXCEPT !.pdf_elements = set_heading(@, 16)]
      [] attribute.tag = "List" /\ attribute.val = "Bullet" ->
            [st EXCEPT !.pdf_elements = set_prefix(@, BulletPrefix),
                       !.ordered_list_index = 1]
      [] attribute.tag = "List" /\ attribute.val = "Ordered" ->
            OrderedArm(st, previous_lists, op)
      [] OTHER -> st

\* One iteration of `for attribute in attributes`: the match on the attribute.
MatchAttribute(attribute, st, previous_lists, op) ==
    CASE attribute.tag = "Bold" /\ attribute.val = TRUE ->
            [st EXCEPT !.style.bold = TRUE]
      [] attribute.tag = "Italic" /\ attribute.val = TRUE ->
            [st EXCEPT !.style.italic = TRUE]
      [] attribute.tag = "Header" /\ attribute.val = 1 ->
            [st EXCEPT !.pdf_elements = set_heading(@, 18)]
      [] attribute.tag = "Header" /\ attribute.val = 2 ->
            [st EXCEPT !.pdf_elements = set_heading(@, 16)]
      [] attribute.tag = "List" /\ attribute.val = "Bullet" ->
            [st EXCEPT !.pdf_elements = set_prefix(@, BulletPrefix)]
      [] attribute.tag = "List" /\ attribute.val = "Ordered" ->
            OrderedArm(st, previous_lists, op)
      [] OTHER -> st

RECURSIVE AttributeLoop(_, _, _, _)
\* for attribute in attributes { ... }
AttributeLoop(attributes, st, previous_lists, op) ==
    IF attributes = <<>> THEN st
    ELSE AttributeLoop(Tail(attributes),
                       MatchAttribute(Head(attributes), st, previous_lists, op),
                       previous_lists, op)

\* The string arm with the style declared outside the loop: it starts from the
\* bold and italic flags of the last string element.
StringArmCarry(o, st, previous_lists, op) ==
    LET carried == IF LastIsString(st.pdf_elements)
                   THEN [st.pdf_elements[Len(st.pdf_elements)].style
                            EXCEPT !.font_size = None]
                   ELSE NewStyle
        start == [st EXCEPT !.style = carried, !.ordered_list_item = FALSE]
        after == IF o.attributes = None THEN start
                 ELSE AttributeLoop(o.attributes[1], start, previous_lists, op)
    IN  [after EXCEPT
            !.pdf_elements = Append(@, StringElement(o.content.s, after.style, op))]

\* The DeltaType::String arm for operation number op: the attributes, then the
\* push of the new element.  st carries pdf_elements, ordered_list_index and
\* numbering in; style and ordered_list_item start afresh.
StringArm(o, st, previous_lists, op) ==
    LET start == [st EXCEPT !.style = NewStyle, !.ordered_list_item = FALSE]
        after == IF o.attributes = None THEN start
                 ELSE AttributeLoop(o.attributes[1], start, previous_lists, op)
    IN  [after EXCEPT
            !.pdf_elements = Append(@, StringElement(o.content.s, after.style, op))]

\* The image name taken from the first path segment instead of the last.
ImageNameFirst(url) ==
    LET segments == PathSegments(url)
    IN  IF segments = None \/ segments[1] = <<>> THEN None
        ELSE Some(segments[1][1])

\* .path_segments().ok_or(ImageUrlError)?.last().ok_or(ImageUrlError)?
ImageName(url) ==
    LET segments == PathSegments(url)
    IN  IF segments = None \/ segments[1] = <<>> THEN None
        ELSE Some(segments[1][Len(segments[1])])

\* PathBuf::join(name): an absolute name replaces the path; otherwise a
\* separator is added unless the path is empty or ends with one, then the name.
Join(path, name) ==
    IF name # <<>> /\ Head(name) = "/" THEN name
    ELSE IF path = <<>> \/ path[Len(path)] = "/" THEN path \o name
    ELSE path \o <<"/">> \o name

\* Whether full_path can name an image file at all: a path that ends with the
\* separator names a directory, which Image::from_path cannot load.
NamesFile(full_path) == full_path # <<>> /\ full_path[Len(full_path)] # "/"

\* One styled span of a paragraph: Paragraph::push_styled(line, style).
Span(line, style, op) == [s |-> line, style |-> style, op |-> op]

\* The blocks the rendering document receives.
ParagraphBlock(paragraph) == [type |-> "Paragraph", spans |-> paragraph]
ImageBlock(element) ==
    [type |-> "Image", path |-> element.path, padding |-> 1, op |-> element.op]

RECURSIVE PushLines(_, _, _)
\* `for line in lines`: each further line pushes the paragraph and starts a
\* new one.  em is [document, paragraph].
PushLines(lines, element, em) ==
    IF lines = <<>> THEN em
    ELSE PushLines(Tail(lines), element,
                   [document |-> Append(em.document, ParagraphBlock(em.paragraph)),
                    paragraph |-> <<Span(Head(lines), element.style, element.op)>>])

\* The loop body with an image that closes the open paragraph first.
EmitElementFlush(element, em) ==
    IF element.type = "String"
    THEN LET lines == Split(element.s, NL)
             first == [em EXCEPT !.paragraph =
                          Append(@, Span(Head(lines), element.style, element.op))]
         IN  PushLines(Tail(lines), element, first)
    ELSE [document |-> em.document \o <<ParagraphBlock(em.paragraph),
                                        ImageBlock(element)>>,
          paragraph |-> <<>>]

\* The body of `for element in pdf_elements`.
EmitElement(element, em) ==
    IF element.type = "String"
    THEN LET lines == Split(element.s, NL)
             first == [em EXCEPT !.paragraph =
                          Append(@, Span(Head(lines), element.style, element.op))]
         IN  PushLines(Tail(lines), element, first)
    ELSE [em EXCEPT !.document = Append(@, ImageBlock(element))]

RECURSIVE EmitLoop(_, _)
\* for element in pdf_elements { ... }
EmitLoop(elements, em) ==
    IF elements = <<>> THEN em
    ELSE EmitLoop(Tail(elements), EmitElement(Head(elements), em))

\* The emission without the push of the last paragraph.
EmissionWithoutLast(elements, doc) ==
    EmitLoop(elements, [document |-> doc, paragraph |-> <<>>]).document

\* Lines 224-247: the emission of the elements into the document, the last
\* paragraph included.
Emission(elements, doc) ==
    LET em == EmitLoop(elements, [document |-> doc, paragraph |-> <<>>])
    IN  Append(em.document, ParagraphBlock(em.paragraph))

RECURSIVE to_string_any_change(_)
\* to_string matching the content of every Change, as write_to_pdf does.
to_string_any_change(ops) ==
    IF ops = <<>> THEN <<>>
    ELSE LET o == ops[Len(ops)]
             front == to_string_any_change(SubSeq(ops, 1, Len(ops) - 1))
         IN  IF o.content.type = "String"
             THEN front \o o.content.s
             ELSE front

RECURSIVE to_string(_)
\* DeltaPdf::to_string over the operations.
to_string(ops) ==
    IF ops = <<>> THEN <<>>
    ELSE LET o == ops[Len(ops)]
             front == to_string(SubSeq(ops, 1, Len(ops) - 1))
         IN  IF o.change = "Insert" /\ o.content.type = "String"
             THEN front \o o.content.s
             ELSE front

\* ------------------------------------------------------------------ state
VARIABLES
    delta,               \* DeltaPdf.delta.ops
    images_path,         \* DeltaPdf.images_path: Option<PathBuf>
    document,            \* the genpdf Document: the blocks pushed so far
    string_result,       \* the value of the last to_string call, if any
    pc,                  \* "idle", or "build" inside write_to_pdf's first loop
    calls,               \* write_to_pdf calls started
    i,                   \* position of `for op in &self.delta.ops`, from 1
    pdf_elements,        \* write_to_pdf local
    ordered_list_index,  \* write_to_pdf local
    previous_lists,      \* write_to_pdf local
    ret,                 \* result of the last write_to_pdf call, if any
    document_before,     \* history: the document when the call started
    numbering            \* history: the ordered prefixes formatted in the call

vars == <<delta, images_path, document, string_result, pc, calls, i,
          pdf_elements, ordered_list_index, previous_lists, ret,
          document_before, numbering>>

object == <<delta, images_path, string_result>>
locals == <<i, pdf_elements, ordered_list_index, previous_lists, numbering>>

Errors == {"ImageUrlError", "ImagePathNotSet", "PdfError"}

\* DeltaPdf::new / From<Delta>: images_path is None; the caller's document is
\* empty.
Init ==
    /\ delta \in Docs
    /\ images_path = None
    /\ document = <<>>
    /\ string_result = None
    /\ pc = "idle"
    /\ calls = 0
    /\ i = 1
    /\ pdf_elements = <<>>
    /\ ordered_list_index = 1
    /\ previous_lists = ZeroBits
    /\ ret = None
    /\ document_before = <<>>
    /\ numbering = <<>>

\* DeltaPdf::set_image_dir(path)
SetImageDir(path) ==
    /\ pc = "idle"
    /\ images_path' = Some(path)
    /\ UNCHANGED <<delta, document, string_result, pc, calls, ret,
                   document_before>>
    /\ UNCHANGED locals

\* DeltaPdf::to_string()
ToStringCall ==
    /\ pc = "idle"
    /\ string_result' = Some(to_string(delta))
    /\ UNCHANGED <<delta, images_path, document, pc, calls, ret,
                   document_before>>
    /\ UNCHANGED locals

\* write_to_pdf, lines 143-148: the locals before the first loop.
Begin ==
    /\ pc = "idle"
    /\ calls < MaxCalls
    /\ pc' = "build"
    /\ calls' = calls + 1
    /\ i' = 1
    /\ pdf_elements' = <<>>
    /\ ordered_list_index' = 1
    /\ previous_lists' = ZeroBits
    /\ numbering' = <<>>
    /\ ret' = None
    /\ document_before' = document
    /\ UNCHANGED <<document>>
    /\ UNCHANGED object

\* The operation the first loop is at.
AtOp == pc = "build" /\ i <= Len(delta)

\* An error return that first emits the elements built so far.
ReturnErrFlushed(e) ==
    /\ pc' = "idle"
    /\ ret' = Some(e)
    /\ i' = 1
    /\ pdf_elements' = <<>>
    /\ ordered_list_index' = 1
    /\ previous_lists' = ZeroBits
    /\ document' = Emission(pdf_elements, document)
    /\ UNCHANGED <<calls, document_before, numbering>>
    /\ UNCHANGED <<delta, images_path, string_result>>

\* An `?` of the first loop returns Err(e): the locals are dropped.
ReturnErr(e) ==
    /\ pc' = "idle"
    /\ ret' = Some(e)
    /\ i' = 1
    /\ pdf_elements' = <<>>
    /\ ordered_list_index' = 1
    /\ previous_lists' = ZeroBits
    /\ UNCHANGED <<document, calls, document_before, numbering>>
    /\ UNCHANGED object

\* One iteration of the first loop on a DeltaType::String, whatever the Change.
StringOp ==
    /\ AtOp
    /\ delta[i].content.type = "String"
    /\ LET st == StringArm(delta[i],
                           [pdf_elements |-> pdf_elements,
                            ordered_list_index |-> ordered_list_index,
                            numbering |-> numbering,
                            style |-> NewStyle,
                            ordered_list_item |-> FALSE],
                           previous_lists, i)
       IN  /\ pdf_elements' = st.pdf_elements
           /\ ordered_list_index' = st.ordered_list_index
           /\ numbering' = st.numbering
           /\ previous_lists' =
                  ShlOr(previous_lists, IF st.ordered_list_item THEN 1 ELSE 0)
    /\ i' = i + 1
    /\ UNCHANGED <<document, pc, calls, ret, document_before>>
    /\ UNCHANGED object

\* DeltaType::Image, lines 205-210: the URL has no last path segment.
ImageUrlFails ==
    /\ AtOp
    /\ delta[i].content.type = "Image"
    /\ ImageName(delta[i].content.image) = None
    /\ ReturnErr("ImageUrlError")

\* DeltaType::Image, lines 211-214: no image directory.
ImagePathFails ==
    /\ AtOp
    /\ delta[i].content.type = "Image"
    /\ ImageName(delta[i].content.image) # None
    /\ images_path = None
    /\ ReturnErr("ImagePathNotSet")

\* The path of the image operation the loop is at.
FullPath == Join(images_path[1], ImageName(delta[i].content.image)[1])

\* DeltaType::Image, line 216: Image::from_path fails (no such file, not an
\* image); the failure is the file system's choice.
ImageLoadFails ==
    /\ AtOp
    /\ delta[i].content.type = "Image"
    /\ ImageName(delta[i].content.image) # None
    /\ images_path # None
    /\ ReturnErr("PdfError")

\* DeltaType::Image, lines 216-217 and 221: the image loads and is pushed.
ImageOp ==
    /\ AtOp
    /\ delta[i].content.type = "Image"
    /\ ImageName(delta[i].content.image) # None
    /\ images_path # None
    /\ NamesFile(FullPath)
    /\ pdf_elements' = Append(pdf_elements, ImageElement(FullPath, i))
    /\ previous_lists' = ShlOr(previous_lists, 0)
    /\ i' = i + 1
    /\ UNCHANGED <<document, pc, calls, ret, document_before,
                   ordered_list_index, numbering>>
    /\ UNCHANGED object

\* Lines 224-248: the first loop is over; the elements are emitted and
\* write_to_pdf returns Ok(()).
Emit ==
    /\ pc = "build"
    /\ i > Len(delta)
    /\ document' = Emission(pdf_elements, document)
    /\ pc' = "idle"
    /\ ret' = Some("Ok")
    /\ i' = 1
    /\ pdf_elements' = <<>>
    /\ ordered_list_index' = 1
    /\ previous_lists' = ZeroBits
    /\ UNCHANGED <<calls, document_before, numbering>>
    /\ UNCHANGED object

Next ==
    \/ SetImageDir(ImagesDir)
    \/ ToStringCall
    \/ Begin
    \/ StringOp
    \/ ImageUrlFails
    \/ ImagePathFails
    \/ ImageLoadFails
    \/ ImageOp
    \/ Emit

Spec == Init /\ [][Next]_vars

\* ----------------------------------------------------------------- claims
\* The blocks the current (or last) write_to_pdf call appended.
NewBlocks == SubSeq(document, Len(document_before) + 1, Len(document))

\* The last call returned Ok(()).
ReturnedOk == pc = "idle" /\ ret = Some("Ok")

\* The last call returned an error.
ReturnedErr == pc = "idle" /\ ret # None /\ ret[1] \in Errors

IsText(o) == o.content.type = "String"
IsImage(o) == o.content.type = "Image"
AttributesOf(o) == IF o.attributes = None THEN <<>> ELSE o.attributes[1]
Carries(o, attribute) ==
    \E k \in 1..Len(AttributesOf(o)) : AttributesOf(o)[k] = attribute
HeaderLevels(o) ==
    { AttributesOf(o)[k].val : k \in { j \in 1..Len(AttributesOf(o)) :
                                         AttributesOf(o)[j].tag = "Header" } }

\* The spans of a paragraph block that hold text.
TextSpans(block) ==
    { k \in 1..Len(block.spans) : block.spans[k].s # <<>> }

\* C1 (as claimed): while the first loop goes over a Delete or Retain operation
\* the element sequence and the ordered numbering stay as they are, and no
\* block or span of the document comes from a Delete or Retain operation.
C1_OnlyInsertsContribute ==
    /\ [][(AtOp /\ delta[i].change # "Insert" /\ pc' = "build")
             => (pdf_elements' = pdf_elements /\ numbering' = numbering)]_vars
    /\ [](\A m \in 1..Len(document) :
             IF document[m].type = "Image"
             THEN delta[document[m].op].change = "Insert"
             ELSE \A k \in 1..Len(document[m].spans) :
                      delta[document[m].spans[k].op].change = "Insert")

\* The font size the run before a header-carrying insert ends up with.
HeadingSize(h, before) ==
    IF h = 1 THEN Some(18) ELSE IF h = 2 THEN Some(16) ELSE before

\* Operation k is a text insert carrying exactly the header level h, and the
\* operation before it is a text insert.
HeaderAfterText(k, h) ==
    /\ k >= 2 /\ k <= Len(delta)
    /\ delta[k - 1].change = "Insert" /\ IsText(delta[k - 1])
    /\ delta[k].change = "Insert" /\ IsText(delta[k])
    /\ HeaderLevels(delta[k]) = {h}

\* C2: when the loop goes over a text insert carrying header h that follows a
\* text insert, the run of the first insert gets font size 18 for h = 1 and 16
\* for h = 2, for any other h no element's font size changes, and the run
\* pushed for the header-carrying insert has the default font size; the spans
\* emitted for the first insert carry that font size.
C2_HeadingOnPreviousRun ==
    /\ [][\A h \in 0..3 :
            (AtOp /\ HeaderAfterText(i, h))
               => /\ Len(pdf_elements') = i
                  /\ pdf_elements'[i - 1].style.font_size =
                         HeadingSize(h, None)
                  /\ pdf_elements'[i].style.font_size = None
                  /\ h \notin {1, 2}
                       => \A j \in 1..(i - 1) :
                              pdf_elements'[j].style.font_size =
                                  pdf_elements[j].style.font_size]_vars
    /\ [](\A m \in 1..Len(document) :
            document[m].type = "Paragraph"
               => \A k \in 1..Len(document[m].spans) :
                    \A h \in 0..3 :
                      HeaderAfterText(document[m].spans[k].op + 1, h)
                         => document[m].spans[k].style.font_size =
                                HeadingSize(h, None))

\* C2 witness: the loop has gone over a text insert and a header: 1 insert,
\* and the first run has font size 18.
C2_Witness ==
    /\ pc = "build" /\ i = 3
    /\ HeaderAfterText(2, 1)
    /\ pdf_elements[1].style.font_size = Some(18)
    /\ pdf_elements[2].style.font_size = None

\* Operation k carries list: "ordered".
IsOrderedOp(k) == Carries(delta[k], List("Ordered"))

\* C3 (as claimed): of two consecutive ordered prefixes written, the second is
\* one more than the first when the two operations are adjacent, and "1. "
\* when another operation lies between them; the first one is "1. ".
C3_ContiguousRunNumbering ==
    pc = "build" =>
        \A m \in 1..Len(numbering) :
            numbering[m].written =>
                IF m >= 2 /\ numbering[m - 1].op = numbering[m].op - 1
                THEN numbering[m].n = numbering[m - 1].n + 1
                ELSE numbering[m].n = 1

\* The ordered item at operation k continues the count: the operation two
\* before it was a text operation carrying list: "ordered" and the text it
\* prefixes (the operation just before it) has no line break.
Continues(k) ==
    /\ k >= 3
    /\ IsText(delta[k - 2]) /\ IsOrderedOp(k - 2)
    /\ ~ContainsNL(delta[k - 1].content.s)

\* C3 (amended): an ordered prefix written into a text is one more than the
\* ordinal formatted before it when the operation two before was a text
\* operation carrying list: "ordered" and the prefixed text has no line break,
\* and "1. " otherwise.
C3_AlternatingRunNumbering ==
    pc = "build" =>
        \A m \in 1..Len(numbering) :
            numbering[m].written =>
                IF Continues(numbering[m].op)
                THEN m >= 2 /\ numbering[m].n = numbering[m - 1].n + 1
                ELSE numbering[m].n = 1

\* C3 witness: a line, its ordered marker, a second line and its marker that
\* is numbered 2, then an adjacent ordered marker that is numbered 1 again.
C3_Witness ==
    /\ pc = "build"
    /\ Len(numbering) = 3
    /\ numbering[1] = [op |-> 2, n |-> 1, written |-> TRUE]
    /\ numbering[2] = [op |-> 4, n |-> 2, written |-> TRUE]
    /\ numbering[3] = [op |-> 5, n |-> 1, written |-> TRUE]
    /\ pdf_elements[3].s = <<"2", ".", " ", "a">>

\* C4: during the first loop, and after any error return, the document is what
\* it was when write_to_pdf was called.
C4_NoPartialOutput ==
    (pc = "build" \/ ReturnedErr) => document = document_before

\* C4 witness: an error return of a call that had gone over a text operation
\* first, on a document that already held blocks.
C4_Witness ==
    /\ ReturnedErr
    /\ IsText(delta[1])
    /\ document_before # <<>>
    /\ document = document_before

RECURSIVE Concat(_)
\* The concatenation of a sequence of strings.
Concat(ss) == IF ss = <<>> THEN <<>> ELSE Head(ss) \o Concat(Tail(ss))

\* The text of a paragraph block: its spans, concatenated.
ParagraphText(block) ==
    Concat([k \in 1..Len(block.spans) |-> block.spans[k].s])

RECURSIVE JoinLines(_)
\* The texts joined with one line break between consecutive texts.
JoinLines(texts) ==
    IF texts = <<>> THEN <<>>
    ELSE IF Len(texts) = 1 THEN texts[1]
    ELSE texts[1] \o <<NL>> \o JoinLines(Tail(texts))

\* Every operation is an Insert of text without attributes.
AllPlainInserts ==
    \A k \in 1..Len(delta) :
        delta[k].change = "Insert" /\ IsText(delta[k]) /\ delta[k].attributes = None

\* C5: for a document of plain text inserts, the call appends paragraphs only,
\* no paragraph text holds a line break, and the paragraph texts joined with
\* line breaks are the insert strings concatenated in input order.
C5_PlainTextRoundTrip ==
    (ReturnedOk /\ AllPlainInserts) =>
        /\ \A m \in 1..Len(NewBlocks) :
              /\ NewBlocks[m].type = "Paragraph"
              /\ ~ContainsNL(ParagraphText(NewBlocks[m]))
        /\ JoinLines([m \in 1..Len(NewBlocks) |-> ParagraphText(NewBlocks[m])])
               = Concat([k \in 1..Len(delta) |-> delta[k].content.s])

\* C5 witness: a plain document of several inserts, one of them with a line
\* break inside, converted into several paragraphs.
C5_Witness ==
    /\ ReturnedOk /\ AllPlainInserts
    /\ Len(delta) >= 2
    /\ \E k \in 1..Len(delta) : delta[k].content.s = <<"a", NL, "b">>
    /\ Len(NewBlocks) >= 3

\* The operation the loop is at is an image whose URL is "https://example.com".
AtNoPathImage ==
    /\ AtOp
    /\ IsImage(delta[i])
    /\ delta[i].content.image = ParseUrl(UrlNoPath)

\* C6 (as claimed): an image operation whose URL has no path makes the call
\* return ImageUrlError.
C6_NoPathIsUrlError ==
    [][AtNoPathImage => ret' = Some("ImageUrlError")]_vars

\* "./images/pic.png"
PicPath == <<".", "/", "images", "/", "pic.png">>

\* The operation the loop is at is an image with the URL
\* "https://example.com/a/b/pic.png".
AtPicImage ==
    /\ AtOp
    /\ IsImage(delta[i])
    /\ delta[i].content.image.path = <<"/", "a", "/", "b", "/", "pic.png">>

\* C7: with the directory "./images" set, the image of
\* "https://example.com/a/b/pic.png" is loaded from "./images/pic.png" or the
\* call fails loading it; with no directory set the call returns
\* ImagePathNotSet; a call returns ImagePathNotSet only at an image operation
\* reached with no directory set.
C7_ImageResolution ==
    /\ [][(AtPicImage /\ images_path = Some(ImagesDir))
             => \/ /\ pdf_elements' = Append(pdf_elements,
                                       [type |-> "Image", path |-> PicPath, op |-> i])
                   /\ pc' = "build"
                \/ ret' = Some("PdfError")]_vars
    /\ [][(AtPicImage /\ images_path = None)
             => ret' = Some("ImagePathNotSet")]_vars
    /\ [][(ret' = Some("ImagePathNotSet") /\ ret # ret')
             => (AtOp /\ IsImage(delta[i]) /\ images_path = None)]_vars
    /\ [](ret = Some("ImagePathNotSet")
             => \E k \in 1..Len(delta) : IsImage(delta[k]))

\* C7 witness: the image has been resolved to "./images/pic.png" and pushed.
C7_Witness ==
    /\ pc = "build"
    /\ images_path = Some(ImagesDir)
    /\ \E k \in 1..Len(pdf_elements) :
          pdf_elements[k].type = "Image" /\ pdf_elements[k].path = PicPath

\* The texts of the paragraphs of the scenario.
ScenarioTexts ==
    << <<"Title">>,
       <<"1", ".", " ", "Item A">>,
       <<"2", ".", " ", "Item B">> >>

\* The first three blocks appended are the scenario's paragraphs: "Title" at
\* font size 18, "1. Item A", "2. Item B".
ScenarioParagraphs ==
    /\ Len(NewBlocks) >= 3
    /\ \A m \in 1..3 :
          /\ NewBlocks[m].type = "Paragraph"
          /\ ParagraphText(NewBlocks[m]) = ScenarioTexts[m]
          /\ \A k \in TextSpans(NewBlocks[m]) :
                NewBlocks[m].spans[k].style =
                    [bold |-> FALSE, italic |-> FALSE,
                     font_size |-> IF m = 1 THEN Some(18) ELSE None]

\* C8 (as claimed): the scenario emits the three paragraphs and nothing else.
C8_ScenarioWholeEmission ==
    (ReturnedOk /\ delta = ScenarioDoc) =>
        (ScenarioParagraphs /\ Len(NewBlocks) = 3)

\* C8 (amended): the scenario emits the three paragraphs, followed by one
\* paragraph without text.
C8_ScenarioEmission ==
    (ReturnedOk /\ delta = ScenarioDoc) =>
        /\ ScenarioParagraphs
        /\ Len(NewBlocks) = 4
        /\ NewBlocks[4].type = "Paragraph"
        /\ ParagraphText(NewBlocks[4]) = <<>>

\* C8 witness: the scenario has been converted.
C8_Witness ==
    /\ ReturnedOk /\ delta = ScenarioDoc
    /\ Len(NewBlocks) = 4
    /\ ParagraphText(NewBlocks[2]) = <<"1", ".", " ", "Item A">>

\* The texts of the Insert operations with string content, in order.
InsertTexts ==
    LET kept == SelectSeq(delta, LAMBDA o : o.change = "Insert" /\ IsText(o))
    IN  [k \in 1..Len(kept) |-> kept[k].content.s]

\* C9: to_string returns the strings of the Insert operations with string
\* content, concatenated in operation order, and nothing else.
C9_ToStringIsInsertText ==
    string_result # None => string_result[1] = Concat(InsertTexts)

\* C9 witness: to_string has returned text for a document that also holds a
\* Retain of text with attributes and an image.
C9_Witness ==
    /\ string_result # None
    /\ string_result[1] # <<>>
    /\ \E k \in 1..Len(delta) : delta[k].change = "Retain" /\ IsText(delta[k])
    /\ \E k \in 1..Len(delta) : IsImage(delta[k])

\* The operations whose text spans lie in block m of the appended blocks.
TextOpsIn(m) ==
    IF NewBlocks[m].type = "Paragraph"
    THEN { NewBlocks[m].spans[k].op : k \in TextSpans(NewBlocks[m]) }
    ELSE {}

\* C10 (as claimed): for every image block appended, the text of the
\* operations before the image lies in blocks before the image block, and no
\* paragraph holds text of operations on both sides of the image.
C10_ImageIsBoundary ==
    ReturnedOk =>
        \A m \in 1..Len(NewBlocks) :
            NewBlocks[m].type = "Image" =>
                \A p \in 1..Len(NewBlocks) :
                    /\ (\E o \in TextOpsIn(p) : o < NewBlocks[m].op) => p < m
                    /\ ~(/\ \E o \in TextOpsIn(p) : o < NewBlocks[m].op
                         /\ \E o \in TextOpsIn(p) : o > NewBlocks[m].op)

\* C11 (as claimed): a heading reaches only the last line of the text before
\* it: an appended span with text and a font size set is the last text span of
\* its operation, no later block holds text of the same operation.
C11_HeadingOnLastLineOnly ==
    ReturnedOk =>
        \A m \in 1..Len(NewBlocks) :
            NewBlocks[m].type = "Paragraph" =>
                \A k \in TextSpans(NewBlocks[m]) :
                    NewBlocks[m].spans[k].style.font_size # None
                       => \A p \in (m + 1)..Len(NewBlocks) :
                              NewBlocks[m].spans[k].op \notin TextOpsIn(p)

\* The list attributes of operation k, in order.
ListAttributes(k) ==
    SelectSeq(AttributesOf(delta[k]), LAMBDA a : a.tag = "List")

\* The loop is at a text operation that carries exactly one list attribute,
\* and the last element is a string.
AtListDirective ==
    /\ AtOp
    /\ IsText(delta[i])
    /\ Len(ListAttributes(i)) = 1
    /\ LastIsString(pdf_elements)

\* C12 (as claimed): the step over a list attribute turns the content s of the
\* last element into prefix \o s.
C12_PrefixAtStart ==
    [][AtListDirective =>
         LET prefix == IF ListAttributes(i)[1].val = "Bullet" THEN BulletPrefix
                       ELSE OrderedPrefix(numbering'[Len(numbering')].n)
         IN  pdf_elements'[i - 1].s = prefix \o pdf_elements[i - 1].s]_vars

\* C12 (amended): the step over a list attribute puts the prefix right after
\* the last line break of the content of the last element, at the start when
\* the content has no line break.
C12_PrefixAfterLastLineBreak ==
    [][AtListDirective =>
         LET prefix == IF ListAttributes(i)[1].val = "Bullet" THEN BulletPrefix
                       ELSE OrderedPrefix(numbering'[Len(numbering')].n)
             s == pdf_elements[i - 1].s
         IN  \E c \in 0..Len(s) :
                /\ c = 0 \/ s[c] = NL
                /\ ~ContainsNL(SubSeq(s, c + 1, Len(s)))
                /\ pdf_elements'[i - 1].s =
                       SubSeq(s, 1, c) \o prefix \o SubSeq(s, c + 1, Len(s))]_vars

\* C12 witness: the text "a\nb" has received an ordered prefix, after its
\* line break.
C12_Witness ==
    /\ pc = "build"
    /\ \E k \in 1..Len(pdf_elements) :
          /\ pdf_elements[k].type = "String"
          /\ pdf_elements[k].s = <<"a", NL, "1", ".", " ", "b">>

\* The string s contains the string t.
ContainsSub(s, t) ==
    \E c \in 0..(Len(s) - Len(t)) : SubSeq(s, c + 1, c + Len(t)) = t

\* The loop is at a text operation whose only list attribute is
\* list: "ordered".
AtOrderedDirective ==
    /\ AtOp
    /\ IsText(delta[i])
    /\ ListAttributes(i) = <<List("Ordered")>>

\* The ordinal the policy of the claim formats: 1 unless the text of the
\* second-to-last element contains "<n-1>. ", n-1 floored at 1.
TextPolicyOrdinal ==
    LET n == ordered_list_index
        before == IF n - 1 < 1 THEN 1 ELSE n - 1
    IN  IF /\ Len(pdf_elements) >= 2
           /\ pdf_elements[Len(pdf_elements) - 1].type = "String"
           /\ ContainsSub(pdf_elements[Len(pdf_elements) - 1].s,
                          OrderedPrefix(before))
        THEN n
        ELSE 1

\* C13 (as claimed): at an ordered attribute whose last element is a text, the
\* ordinal formatted is the one the text policy gives, and the counter
\* becomes one more.
C13_TextResetPolicy ==
    [][(AtOrderedDirective /\ LastIsString(pdf_elements))
          => /\ numbering'[Len(numbering')].n = TextPolicyOrdinal
             /\ ordered_list_index' = TextPolicyOrdinal + 1]_vars

\* The text operation two before operation k carried list: "ordered".
OrderedTwoBefore(k) ==
    k >= 3 /\ IsText(delta[k - 2]) /\ IsOrderedOp(k - 2)

\* The ordinal write_to_pdf formats at the ordered attribute the loop is at:
\* 1 when the last element is a text and either the text operation two
\* before carried no list: "ordered" or that text holds a line break; the
\* counter otherwise.
HistoryPolicyOrdinal ==
    IF /\ LastIsString(pdf_elements)
       /\ (~OrderedTwoBefore(i) \/ ContainsNL(pdf_elements[i - 1].s))
    THEN 1
    ELSE ordered_list_index

\* C13 (amended): at an ordered attribute the ordinal formatted is the one the
\* history policy gives, the counter becomes one more, and when the last
\* element is a text it receives that prefix.
C13_HistoryResetPolicy ==
    [][AtOrderedDirective
          => /\ numbering'[Len(numbering')].n = HistoryPolicyOrdinal
             /\ ordered_list_index' = HistoryPolicyOrdinal + 1
             /\ LastIsString(pdf_elements)
                  => /\ Len(pdf_elements'[i - 1].s) =
                            Len(pdf_elements[i - 1].s)
                                + Len(OrderedPrefix(HistoryPolicyOrdinal))
                     /\ ContainsSub(pdf_elements'[i - 1].s,
                                    OrderedPrefix(HistoryPolicyOrdinal))]_vars

\* C13 witness: the scenario's second item has been numbered 2 although the
\* element before it, the line break, does not contain "1. ".
C13_Witness ==
    /\ pc = "build" /\ delta = ScenarioDoc /\ i = 7
    /\ ordered_list_index = 3
    /\ pdf_elements[4].s = <<NL>>
    /\ pdf_elements[5].s = <<"2", ".", " ", "Item B">>

\* The loop is at a text operation that carries a header or a list attribute.
AtDirective ==
    /\ AtOp
    /\ IsText(delta[i])
    /\ \E k \in 1..Len(AttributesOf(delta[i])) :
          AttributesOf(delta[i])[k].tag \in {"Header", "List"}

\* C14: the step over a text operation with a header or list attribute leaves
\* every element before the last one as it was, pushes the operation's own run
\* with its text unprefixed and the default font size, and leaves the last
\* element as it was too when that is an image.
C14_DirectiveTouchesLastOnly ==
    [][AtDirective
          => /\ Len(pdf_elements') = Len(pdf_elements) + 1
             /\ \A j \in 1..(Len(pdf_elements) - 1) :
                   pdf_elements'[j] = pdf_elements[j]
             /\ pdf_elements'[Len(pdf_elements')].s = delta[i].content.s
             /\ pdf_elements'[Len(pdf_elements')].style.font_size = None
             /\ ~LastIsString(pdf_elements)
                  => \A j \in 1..Len(pdf_elements) :
                        pdf_elements'[j] = pdf_elements[j]]_vars

\* C14 witness: a header: 1 operation has been processed after a text and an
\* image: the image is last before it, and the text keeps its font size.
C14_Witness ==
    /\ pc = "build" /\ i = 4
    /\ IsText(delta[3]) /\ Carries(delta[3], Header(1))
    /\ pdf_elements[1].type = "String"
    /\ pdf_elements[1].style.font_size = None
    /\ pdf_elements[2].type = "Image"

\* The bold and italic flags operation k asks for.
OwnStyle(k, font_size) ==
    [bold |-> Carries(delta[k], Bold(TRUE)),
     italic |-> Carries(delta[k], Italic(TRUE)),
     font_size |-> font_size]

\* C15: every string element is bold exactly when its operation carries
\* bold: true and italic exactly when it carries italic: true, the element
\* pushed last has the default font size whatever its operation carries, and
\* the spans emitted are bold and italic as their operations ask.
C15_StyleFromOwnAttributes ==
    /\ pc = "build" =>
          /\ \A k \in 1..Len(pdf_elements) :
                pdf_elements[k].type = "String"
                   => pdf_elements[k].style =
                          OwnStyle(k, pdf_elements[k].style.font_size)
          /\ LastIsString(pdf_elements)
                => pdf_elements[Len(pdf_elements)].style =
                       OwnStyle(Len(pdf_elements), None)
    /\ \A m \in 1..Len(document) :
          document[m].type = "Paragraph"
             => \A k \in 1..Len(document[m].spans) :
                   document[m].spans[k].style =
                       OwnStyle(document[m].spans[k].op,
                                document[m].spans[k].style.font_size)

\* C15 witness: a bold run followed by the run of an operation without bold.
C15_Witness ==
    /\ pc = "build"
    /\ Len(pdf_elements) >= 2
    /\ pdf_elements[1].type = "String" /\ pdf_elements[1].style.bold
    /\ pdf_elements[2].type = "String" /\ ~pdf_elements[2].style.bold

\* The loop is at a text operation whose only list attribute is
\* list: "bullet".
AtBulletDirective ==
    /\ AtOp
    /\ IsText(delta[i])
    /\ ListAttributes(i) = <<List("Bullet")>>

\* C16: the step over a bullet attribute leaves the ordered counter and the
\* ordered numbering as they were, and a last element that is a text gains
\* the bullet and a space, the same two characters whatever came before.
C16_BulletIsStateless ==
    [][AtBulletDirective
          => /\ ordered_list_index' = ordered_list_index
             /\ numbering' = numbering
             /\ LastIsString(pdf_elements)
                  => LET s == pdf_elements[i - 1].s
                     IN  \E c \in 0..Len(s) :
                            pdf_elements'[i - 1].s =
                                SubSeq(s, 1, c) \o <<"U+2022", " ">>
                                    \o SubSeq(s, c + 1, Len(s))]_vars

\* C16 witness: a bullet attribute has been processed after an ordered item:
\* the counter is still 2 and the last element before it holds the bullet.
C16_Witness ==
    /\ pc = "build" /\ i = 4
    /\ ListAttributes(3) = <<List("Bullet")>>
    /\ IsText(delta[2]) /\ IsOrderedOp(2)
    /\ ordered_list_index = 2
    /\ ContainsSub(pdf_elements[2].s, <<"U+2022", " ">>)

\* The ordered attributes whose prefix was written into an element.
WrittenNumbering == SelectSeq(numbering, LAMBDA e : e.written)

\* C17 (as claimed): of the ordered prefixes written into elements the first
\* is "1. " and each later one is "1. " or one more than the one written
\* before it.
C17_WrittenOrdinalsChain ==
    pc = "build" =>
        \A m \in 1..Len(WrittenNumbering) :
            \/ WrittenNumbering[m].n = 1
            \/ m >= 2 /\ WrittenNumbering[m].n = WrittenNumbering[m - 1].n + 1

\* C17 (amended): of the ordinals formatted for ordered attributes, written
\* or not, the first is 1 and each later one is 1 or one more than the one
\* before it; an attribute that writes nothing never starts over and takes
\* its ordinal: the counter is always one more than the last ordinal.
C17_FormattedOrdinalsChain ==
    pc = "build" =>
        /\ \A m \in 1..Len(numbering) :
              /\ m = 1 => numbering[m].n = 1
              /\ m >= 2 => \/ numbering[m].n = numbering[m - 1].n + 1
                           \/ numbering[m].n = 1 /\ numbering[m].written
        /\ ordered_list_index =
              IF numbering = <<>> THEN 1
              ELSE numbering[Len(numbering)].n + 1

\* C17 witness: an ordered attribute on the first operation wrote nothing and
\* the first prefix written, two operations later, is "2. ".
C17_Witness ==
    /\ pc = "build"
    /\ numbering = << [op |-> 1, n |-> 1, written |-> FALSE],
                      [op |-> 3, n |-> 2, written |-> TRUE] >>
    /\ pdf_elements[2].s = <<"2", ".", " ", "a">>

\* The appended blocks of one type.
BlocksOfType(type) == { m \in 1..Len(NewBlocks) : NewBlocks[m].type = type }

\* The line breaks of the text operations: operation and position.
LineBreaks ==
    UNION { { <<k, j>> : j \in { j \in 1..Len(delta[k].content.s) :
                                    delta[k].content.s[j] = NL } } :
            k \in { k \in 1..Len(delta) : IsText(delta[k]) } }

\* The text operations of the document.
TextOps == { k \in 1..Len(delta) : IsText(delta[k]) }

\* The last text operation ends with a line break.
TextEndsWithLineBreak ==
    /\ TextOps # {}
    /\ LET k == CHOOSE k \in TextOps : \A j \in TextOps : j <= k
           s == delta[k].content.s
       IN  s # <<>> /\ s[Len(s)] = NL

\* C18: a call that returns Ok has appended one image block per image
\* operation and one paragraph more than there are line breaks in the text
\* operations; the last block is a paragraph, and it is without text when the
\* text of the document ends with a line break.
C18_BlockCounts ==
    ReturnedOk =>
        /\ Cardinality(BlocksOfType("Image")) =
               Cardinality({ k \in 1..Len(delta) : IsImage(delta[k]) })
        /\ Cardinality(BlocksOfType("Paragraph")) = 1 + Cardinality(LineBreaks)
        /\ Len(NewBlocks) >= 1
        /\ NewBlocks[Len(NewBlocks)].type = "Paragraph"
        /\ TextEndsWithLineBreak
              => ParagraphText(NewBlocks[Len(NewBlocks)]) = <<>>

\* C18 witness: a converted document with an image and text that ends with a
\* line break: an image block, two paragraphs or more, the last one empty.
C18_Witness ==
    /\ ReturnedOk
    /\ \E k \in 1..Len(delta) : IsImage(delta[k])
    /\ TextEndsWithLineBreak
    /\ Cardinality(BlocksOfType("Image")) = 1
    /\ Cardinality(BlocksOfType("Paragraph")) >= 2
    /\ ParagraphText(NewBlocks[Len(NewBlocks)]) = <<>>

====
